---- MODULE Spec2Model ----
(***************************************************************************)
(* The stakefish notebook: a Bulk Fetcher (cell 1), a Gap Reconciler       *)
(* (cell 3) and an Aggregator (cells 5, 7, 9) that share one pickle file,  *)
(* ./data/blocks.pkl, and the globals of one Python kernel.                *)
(*                                                                         *)
(* Conventions of the model                                                *)
(*  - The file is `store`: the sequence of pickled objects (pages) it      *)
(*    holds, each page a sequence of block dictionaries; `exists` says     *)
(*    whether the file is there at all.                                    *)
(*  - A block dictionary is a TLA+ record; a dictionary with more keys is  *)
(*    a record with more fields.                                           *)
(*  - `timestamp` counts the days of range(start_time, end_time, day):     *)
(*    the value the code holds is start_time + timestamp * 86400000.       *)
(*  - time_diff holds the numerators of the code's floats: the code's      *)
(*    entry is time_diff[i] / 60.                                          *)
(*  - A failed request is a response whose status is not 200, as the code  *)
(*    tests it; requests.get raising is outside the model.                 *)
(***************************************************************************)
EXTENDS Integers, Sequences, FiniteSets, TLC

(***************************************************************************)
(* Program constants.                                                      *)
(***************************************************************************)
\* range(5): attempts per day (cell 1) and per missing block (cell 3)
Retries == 5
\* the 120 of `time >= 120` and of the cdf (cells 7, 9), in minutes
LongGap == 120
\* the 60 of `/60`: seconds per minute (cell 5)
SecPerMin == 60

(***************************************************************************)
(* Bounds of the model.                                                    *)
(***************************************************************************)
\* days in range(start_time, end_time, day)
NumDays == 2
\* block indexes of the upstream chain are 0..MaxIndex
MaxIndex == 3
\* most blocks in a file the Aggregator starts from
MaxRecs == 3
\* most runs of cell 3 on one file of cell 1
MaxRuns == 2

Indexes == 0 .. MaxIndex

(***************************************************************************)
(* Block dictionaries.                                                     *)
(***************************************************************************)
CoreFields == {"hash", "height", "time", "block_index"}

Block(i, h, g, t) == [hash |-> h, height |-> g, time |-> t, block_index |-> i]

\* a dictionary as the API sends it: the four keys and one more
Full(b) == [f \in CoreFields \cup {"main_chain"} |->
              IF f = "main_chain" THEN TRUE ELSE b[f]]

\* cell 3 line 139: the dictionary rebuilt from four keys of `record`
Project(record) == [f \in CoreFields |-> record[f]]

(***************************************************************************)
(* The pickle file.                                                        *)
(***************************************************************************)
\* Flat with one pickle.load and no loop: the first page only
FlatFirstPage(pages) == IF pages = << >> THEN << >> ELSE Head(pages)

RECURSIVE Flat(_)
\* cells 3 and 5: blocks = []; while True: blocks += pickle.load(input)
Flat(pages) == IF pages = << >> THEN << >> ELSE Head(pages) \o Flat(Tail(pages))

Range(s) == {s[k] : k \in DOMAIN s}

\* set(map(lambda block: block['block_index'], blocks))
IndexSet(bs) == {bs[k].block_index : k \in DOMAIN bs}

(***************************************************************************)
(* State.                                                                  *)
(***************************************************************************)
VARIABLES
  exists,            \* ./data/blocks.pkl is there
  store,             \* the pages pickled into it, in file order
  names,             \* what the kernel has bound of: requests, pickle, time_diff
  pc,                \* where the kernel is: at rest, or inside cell 1 or cell 3
  err,               \* the exception that ended the last cell, or "none"
  timestamp,         \* cell 1: the day of the outer loop
  tries,             \* cells 1 and 3: the attempt of the inner loop
  blocks,            \* cells 3 and 5: the list loaded from the file
  missing_blocks,    \* cell 3: block_list - block_indexes
  pending,           \* cell 3: what the iterator over missing_blocks has left
  block,             \* cell 3: the missing index of the outer loop
  blocks_to_add,     \* cell 3: the blocks the responses brought
  time_diff,         \* cell 5: the deltas (numerators over 60)
  actual,            \* cell 7: <<long deltas, deltas>>, the fraction it divides
  long_block_deltas, \* cell 9: the count it prints
  upstream,          \* what /block-height answers for each index until new data
  runs,              \* runs of cell 3 completed since cell 1 last made the file
  steady,            \* of them, the last ones in a row with the upstream unchanged
  unit,              \* requests, failures, successes, appends of the current unit
  requested,         \* cell 1: the days a request was sent for, in order
  pre                \* the flat list the file held when the running cell began

vars == <<exists, store, names, pc, err, timestamp, tries, blocks, missing_blocks,
          pending, block, blocks_to_add, time_diff, actual, long_block_deltas,
          upstream, runs, steady, unit, requested, pre>>

Rest == {"idle", "c1_done", "c3_done", "c5_done", "c7_done", "c9_done"}

NoUnit == [reqs |-> 0, fails |-> 0, oks |-> 0, adds |-> 0]

\* no answer fixed yet for an index
Unasked == [status |-> 0, blocks |-> << >>]

\* The globals no cell reads before it assigns them hold nothing a later cell
\* can see: every cell starts from them cleared.  time_diff and names stay.
ClearCell1 == timestamp' = -1 /\ requested' = << >>

ClearCell3 ==
  /\ missing_blocks' = {}
  /\ pending' = {}
  /\ block' = -1
  /\ blocks_to_add' = << >>

ClearStats == actual' = <<0, 0>> /\ long_block_deltas' = -1

ClearTry == tries' = 0 /\ unit' = NoUnit

\* a new kernel, no file
Init ==
  /\ exists = FALSE
  /\ store = << >>
  /\ names = {}
  /\ pc = "idle"
  /\ err = "none"
  /\ timestamp = -1
  /\ tries = 0
  /\ blocks = << >>
  /\ missing_blocks = {}
  /\ pending = {}
  /\ block = -1
  /\ blocks_to_add = << >>
  /\ time_diff = << >>
  /\ actual = <<0, 0>>
  /\ long_block_deltas = -1
  /\ upstream = [i \in Indexes |-> Unasked]
  /\ runs = 0
  /\ steady = 0
  /\ unit = NoUnit
  /\ requested = << >>
  /\ pre = << >>

(***************************************************************************)
(* Cell 1: the Bulk Fetcher.                                               *)
(***************************************************************************)
\* lines 23-40: the imports, makedirs, open('./data/blocks.pkl', 'wb')
FetchStart ==
  /\ pc \in Rest
  /\ pc' = "c1_for_day"
  /\ err' = "none"
  /\ names' = names \cup {"requests", "pickle"}
  /\ pre' = IF exists THEN Flat(store) ELSE << >>
  /\ exists' = TRUE
  /\ store' = << >>
  /\ runs' = 0
  /\ steady' = 0
  /\ blocks' = << >>
  /\ ClearCell1 /\ ClearCell3 /\ ClearStats /\ ClearTry
  /\ UNCHANGED <<time_diff, upstream>>

\* line 43: for timestamp in range(start_time, end_time, 24 * 60 * 60 * 1000)
FetchNextDay ==
  /\ pc = "c1_for_day"
  /\ IF timestamp + 1 < NumDays
       THEN /\ timestamp' = timestamp + 1
            /\ tries' = 0
            /\ unit' = NoUnit
            /\ pc' = "c1_try"
       ELSE /\ pc' = "c1_done"
            /\ UNCHANGED <<timestamp, tries, unit>>
  /\ UNCHANGED <<exists, store, names, err, blocks, missing_blocks, pending, block,
                 blocks_to_add, time_diff, actual, long_block_deltas, upstream,
                 runs, steady, requested, pre>>

Asked(days) == IF unit.reqs = 0 THEN Append(days, timestamp) ELSE days

\* FetchOk without the break of line 54
FetchOkNoBreak(page) ==
  /\ pc = "c1_try"
  /\ store' = Append(store, page)
  /\ unit' = [unit EXCEPT !.reqs = @ + 1, !.oks = @ + 1,
                          !.adds = @ + Len(store') - Len(store)]
  /\ requested' = Asked(requested)
  /\ IF tries + 1 < Retries
       THEN tries' = tries + 1 /\ pc' = "c1_try"
       ELSE tries' = tries /\ pc' = "c1_for_day"
  /\ UNCHANGED <<exists, names, err, timestamp, blocks, missing_blocks,
                 pending, block, blocks_to_add, time_diff, actual,
                 long_block_deltas, upstream, runs, steady, pre>>

\* FetchOk breaking only when the page has a block: an empty day is tried again
FetchOkEmptyRetries(page) ==
  /\ pc = "c1_try"
  /\ store' = Append(store, page)
  /\ unit' = [unit EXCEPT !.reqs = @ + 1, !.oks = @ + 1,
                          !.adds = @ + Len(store') - Len(store)]
  /\ requested' = Asked(requested)
  /\ IF page = << >> /\ tries + 1 < Retries
       THEN tries' = tries + 1 /\ pc' = "c1_try"
       ELSE tries' = tries /\ pc' = "c1_for_day"
  /\ UNCHANGED <<exists, names, err, timestamp, blocks, missing_blocks,
                 pending, block, blocks_to_add, time_diff, actual,
                 long_block_deltas, upstream, runs, steady, pre>>

\* lines 49-54: status 200: pickle.dump(request.json(), output); break
FetchOk(page) ==
  /\ pc = "c1_try"
  /\ store' = Append(store, page)
  /\ unit' = [unit EXCEPT !.reqs = @ + 1, !.oks = @ + 1,
                          !.adds = @ + Len(store') - Len(store)]
  /\ requested' = Asked(requested)
  /\ pc' = "c1_for_day"
  /\ UNCHANGED <<exists, names, err, timestamp, tries, blocks, missing_blocks,
                 pending, block, blocks_to_add, time_diff, actual,
                 long_block_deltas, upstream, runs, steady, pre>>

\* FetchFail raising for the status instead of giving the day up
FetchFailRaises ==
  /\ pc = "c1_try"
  /\ unit' = [unit EXCEPT !.reqs = @ + 1, !.fails = @ + 1]
  /\ requested' = Asked(requested)
  /\ IF tries + 1 < Retries
       THEN tries' = tries + 1 /\ pc' = "c1_try" /\ err' = err
       ELSE tries' = tries /\ pc' = "c1_done" /\ err' = "HTTPError"
  /\ UNCHANGED <<exists, store, names, timestamp, blocks, missing_blocks,
                 pending, block, blocks_to_add, time_diff, actual,
                 long_block_deltas, upstream, runs, steady, pre>>

\* lines 49-51, 55-58: another status: sleep, print, next attempt if one is left
FetchFail ==
  /\ pc = "c1_try"
  /\ unit' = [unit EXCEPT !.reqs = @ + 1, !.fails = @ + 1]
  /\ requested' = Asked(requested)
  /\ IF tries + 1 < Retries
       THEN tries' = tries + 1 /\ pc' = "c1_try"
       ELSE tries' = tries /\ pc' = "c1_for_day"
  /\ UNCHANGED <<exists, store, names, err, timestamp, blocks, missing_blocks,
                 pending, block, blocks_to_add, time_diff, actual,
                 long_block_deltas, upstream, runs, steady, pre>>

(***************************************************************************)
(* Cell 3: the Gap Reconciler.                                             *)
(***************************************************************************)
Max(S) == CHOOSE m \in S : \A x \in S : x <= m

\* MissingBlocks with range(1, max_index+1) for block_list
MissingBlocksFromOne(bs) ==
  LET block_indexes == IndexSet(bs)
      max_index == Max(block_indexes)
      block_list == 1 .. max_index
  IN  block_list \ block_indexes

\* lines 103-113: block_indexes, max_index, block_list, missing_blocks
MissingBlocks(bs) ==
  LET block_indexes == IndexSet(bs)
      max_index == Max(block_indexes)
      block_list == 0 .. max_index
  IN  block_list \ block_indexes

RECURSIVE MapProject(_)
\* line 139: list(map(lambda record: {...four keys...}, blocks_to_add))
MapProject(records) ==
  IF records = << >> THEN << >>
  ELSE <<Project(Head(records))>> \o MapProject(Tail(records))

\* ReconStart with the file opened 'wb' around the loop, as cell 1 opens it
ReconStartOpensForWrite ==
  /\ pc \in Rest
  /\ runs < MaxRuns
  /\ err' = IF ~exists THEN "FileNotFoundError"
            ELSE IF IndexSet(Flat(store)) = {} THEN "ValueError"
            ELSE "none"
  /\ pc' = IF err' = "none" THEN "c3_for_block" ELSE "c3_done"
  /\ names' = names \cup {"pickle"}
  /\ pre' = IF exists THEN Flat(store) ELSE << >>
  /\ blocks' = IF exists THEN Flat(store) ELSE << >>
  /\ missing_blocks' = IF err' = "none" THEN MissingBlocks(blocks') ELSE {}
  /\ pending' = missing_blocks'
  /\ block' = -1
  /\ blocks_to_add' = << >>
  /\ store' = IF err' = "none" THEN << >> ELSE store
  /\ ClearCell1 /\ ClearStats /\ ClearTry
  /\ UNCHANGED <<exists, time_diff, upstream, runs, steady>>

\* lines 92-119: load the file, find the missing indexes; open() or max() may raise
ReconStart ==
  /\ pc \in Rest
  /\ runs < MaxRuns
  /\ err' = IF ~exists THEN "FileNotFoundError"
            ELSE IF IndexSet(Flat(store)) = {} THEN "ValueError"
            ELSE "none"
  /\ pc' = IF err' = "none" THEN "c3_for_block" ELSE "c3_done"
  /\ names' = names \cup {"pickle"}
  /\ pre' = IF exists THEN Flat(store) ELSE << >>
  /\ blocks' = IF exists THEN Flat(store) ELSE << >>
  /\ missing_blocks' = IF err' = "none" THEN MissingBlocks(blocks') ELSE {}
  /\ pending' = missing_blocks'
  /\ block' = -1
  /\ blocks_to_add' = << >>
  /\ ClearCell1 /\ ClearStats /\ ClearTry
  /\ UNCHANGED <<exists, store, time_diff, upstream, runs, steady>>

\* ReconNextBlock projecting the whole list, not only blocks_to_add
ReconNextBlockProjectAll ==
  /\ pc = "c3_for_block"
  /\ IF pending # {}
       THEN /\ \E b \in pending : block' = b /\ pending' = pending \ {b}
            /\ tries' = 0
            /\ unit' = NoUnit
            /\ pc' = "c3_try"
            /\ UNCHANGED <<blocks, store>>
       ELSE /\ blocks' = MapProject(blocks \o blocks_to_add)
            /\ store' = << >>
            /\ pc' = "c3_write"
            /\ UNCHANGED <<block, pending, tries, unit>>
  /\ UNCHANGED <<exists, names, err, timestamp, missing_blocks, blocks_to_add,
                 time_diff, actual, long_block_deltas, upstream, runs, steady,
                 requested, pre>>

RECURSIVE OnePerIndex(_)
\* the records of the list whose index no earlier record of it has
OnePerIndex(records) ==
  IF records = << >> THEN << >>
  ELSE LET front == SubSeq(records, 1, Len(records) - 1)
           last == records[Len(records)]
       IN  IF last.block_index \in IndexSet(front) THEN OnePerIndex(front)
           ELSE Append(OnePerIndex(front), last)

\* ReconNextBlock keeping one record for each index of blocks_to_add
ReconNextBlockOnePerIndex ==
  /\ pc = "c3_for_block"
  /\ IF pending # {}
       THEN /\ \E b \in pending : block' = b /\ pending' = pending \ {b}
            /\ tries' = 0
            /\ unit' = NoUnit
            /\ pc' = "c3_try"
            /\ UNCHANGED <<blocks, store>>
       ELSE /\ blocks' = blocks \o OnePerIndex(MapProject(blocks_to_add))
            /\ store' = << >>
            /\ pc' = "c3_write"
            /\ UNCHANGED <<block, pending, tries, unit>>
  /\ UNCHANGED <<exists, names, err, timestamp, missing_blocks, blocks_to_add,
                 time_diff, actual, long_block_deltas, upstream, runs, steady,
                 requested, pre>>

\* ReconNextBlock without line 139: blocks is not extended before the write
ReconNextBlockNoExtend ==
  /\ pc = "c3_for_block"
  /\ IF pending # {}
       THEN /\ \E b \in pending : block' = b /\ pending' = pending \ {b}
            /\ tries' = 0
            /\ unit' = NoUnit
            /\ pc' = "c3_try"
            /\ UNCHANGED <<blocks, store>>
       ELSE /\ blocks' = blocks
            /\ store' = << >>
            /\ pc' = "c3_write"
            /\ UNCHANGED <<block, pending, tries, unit>>
  /\ UNCHANGED <<exists, names, err, timestamp, missing_blocks, blocks_to_add,
                 time_diff, actual, long_block_deltas, upstream, runs, steady,
                 requested, pre>>

\* line 122: for block in missing_blocks (a set: any order); after the loop,
\* line 139 extends blocks and line 142 opens the file 'wb', which empties it
ReconNextBlock ==
  /\ pc = "c3_for_block"
  /\ IF pending # {}
       THEN /\ \E b \in pending : block' = b /\ pending' = pending \ {b}
            /\ tries' = 0
            /\ unit' = NoUnit
            /\ pc' = "c3_try"
            /\ UNCHANGED <<blocks, store>>
       ELSE /\ blocks' = blocks \o MapProject(blocks_to_add)
            /\ store' = << >>
            /\ pc' = "c3_write"
            /\ UNCHANGED <<block, pending, tries, unit>>
  /\ UNCHANGED <<exists, names, err, timestamp, missing_blocks, blocks_to_add,
                 time_diff, actual, long_block_deltas, upstream, runs, steady,
                 requested, pre>>

\* line 128 in a kernel where cell 1 never ran: requests is not defined
ReconNameError ==
  /\ pc = "c3_try"
  /\ "requests" \notin names
  /\ pc' = "c3_done"
  /\ err' = "NameError"
  /\ UNCHANGED <<exists, store, names, timestamp, tries, blocks, missing_blocks,
                 pending, block, blocks_to_add, time_diff, actual,
                 long_block_deltas, upstream, runs, steady, unit, requested, pre>>

Failing == [status |-> 500, blocks |-> << >>]

Answer(bs) == [status |-> 200, blocks |-> bs]

\* ReconOk taking result['blocks'][0] only
ReconOkFirstOnly(bs) ==
  /\ pc = "c3_try"
  /\ "requests" \in names
  /\ upstream[block] \in {Unasked, Answer(bs)}
  /\ upstream' = [upstream EXCEPT ![block] = Answer(bs)]
  /\ blocks_to_add' = blocks_to_add \o (IF bs = << >> THEN << >> ELSE <<Head(bs)>>)
  /\ unit' = [unit EXCEPT !.reqs = @ + 1, !.oks = @ + 1,
                          !.adds = @ + Len(blocks_to_add') - Len(blocks_to_add)]
  /\ pc' = "c3_for_block"
  /\ UNCHANGED <<exists, store, names, err, timestamp, tries, blocks,
                 missing_blocks, pending, block, time_diff, actual,
                 long_block_deltas, runs, steady, requested, pre>>

\* lines 126-132: status 200: blocks_to_add += result['blocks']; break
ReconOk(bs) ==
  /\ pc = "c3_try"
  /\ "requests" \in names
  /\ upstream[block] \in {Unasked, Answer(bs)}
  /\ upstream' = [upstream EXCEPT ![block] = Answer(bs)]
  /\ blocks_to_add' = blocks_to_add \o bs
  /\ unit' = [unit EXCEPT !.reqs = @ + 1, !.oks = @ + 1,
                          !.adds = @ + Len(blocks_to_add') - Len(blocks_to_add)]
  /\ pc' = "c3_for_block"
  /\ UNCHANGED <<exists, store, names, err, timestamp, tries, blocks,
                 missing_blocks, pending, block, time_diff, actual,
                 long_block_deltas, runs, steady, requested, pre>>

\* ReconFail with one attempt more than range(5) gives
ReconFailSixth ==
  /\ pc = "c3_try"
  /\ "requests" \in names
  /\ IF tries + 1 <= Retries
       THEN /\ tries' = tries + 1
            /\ pc' = "c3_try"
            /\ UNCHANGED upstream
       ELSE /\ upstream[block] \in {Unasked, Failing}
            /\ upstream' = [upstream EXCEPT ![block] = Failing]
            /\ tries' = tries
            /\ pc' = "c3_for_block"
  /\ unit' = [unit EXCEPT !.reqs = @ + 1, !.fails = @ + 1]
  /\ UNCHANGED <<exists, store, names, err, timestamp, blocks, missing_blocks,
                 pending, block, blocks_to_add, time_diff, actual,
                 long_block_deltas, runs, steady, requested, pre>>

\* lines 126-128, 133-136: another status: sleep, print, next attempt if one is
\* left.  The fifth failure in a row is the answer the upstream keeps for this
\* index until its data changes.
ReconFail ==
  /\ pc = "c3_try"
  /\ "requests" \in names
  /\ IF tries + 1 < Retries
       THEN /\ tries' = tries + 1
            /\ pc' = "c3_try"
            /\ UNCHANGED upstream
       ELSE /\ upstream[block] \in {Unasked, Failing}
            /\ upstream' = [upstream EXCEPT ![block] = Failing]
            /\ tries' = tries
            /\ pc' = "c3_for_block"
  /\ unit' = [unit EXCEPT !.reqs = @ + 1, !.fails = @ + 1]
  /\ UNCHANGED <<exists, store, names, err, timestamp, blocks, missing_blocks,
                 pending, block, blocks_to_add, time_diff, actual,
                 long_block_deltas, runs, steady, requested, pre>>

\* line 143: pickle.dump(blocks, output): one page, the whole list
ReconWrite ==
  /\ pc = "c3_write"
  /\ store' = <<blocks>>
  /\ pc' = "c3_done"
  /\ runs' = runs + 1
  /\ steady' = IF steady < 2 THEN steady + 1 ELSE steady
  /\ UNCHANGED <<exists, names, err, timestamp, tries, blocks, missing_blocks,
                 pending, block, blocks_to_add, time_diff, actual,
                 long_block_deltas, upstream, unit, requested, pre>>

\* the upstream data changes: every index may answer anew
NewData ==
  /\ pc \in Rest
  /\ \E i \in Indexes : upstream[i] # Unasked
  /\ upstream' = [i \in Indexes |-> Unasked]
  /\ steady' = 0
  /\ UNCHANGED <<exists, store, names, pc, err, timestamp, tries, blocks,
                 missing_blocks, pending, block, blocks_to_add, time_diff, actual,
                 long_block_deltas, runs, unit, requested, pre>>

\* the operator interrupts the running cell (KeyboardInterrupt): the `with`
\* closes the file as it is
Interrupt ==
  /\ pc \notin Rest
  /\ pc' = IF pc \in {"c1_for_day", "c1_try"} THEN "c1_done" ELSE "c3_done"
  /\ err' = "KeyboardInterrupt"
  /\ steady' = IF pc = "c3_write" THEN 0 ELSE steady
  /\ UNCHANGED <<exists, store, names, timestamp, tries, blocks, missing_blocks,
                 pending, block, blocks_to_add, time_diff, actual,
                 long_block_deltas, upstream, runs, unit, requested, pre>>

\* the kernel is restarted: its globals are gone, the file stays
Restart ==
  /\ pc \in Rest
  /\ pc # "idle" \/ names # {}
  /\ pc' = "idle"
  /\ err' = "none"
  /\ names' = {}
  /\ blocks' = << >>
  /\ time_diff' = << >>
  /\ ClearCell1 /\ ClearCell3 /\ ClearStats /\ ClearTry
  /\ pre' = << >>
  /\ UNCHANGED <<exists, store, upstream, runs, steady>>

(***************************************************************************)
(* Cells 5, 7, 9: the Aggregator.                                          *)
(***************************************************************************)
RECURSIVE Insert(_, _)
\* b goes after every block whose key is not greater: equal keys keep their order
Insert(b, sorted) ==
  IF sorted = << >> THEN <<b>>
  ELSE IF Head(sorted).block_index <= b.block_index
         THEN <<Head(sorted)>> \o Insert(b, Tail(sorted))
         ELSE <<b>> \o sorted

RECURSIVE Sorted(_)
\* line 171: sorted(blocks, key=lambda block: block['block_index']), a stable sort
Sorted(bs) ==
  IF bs = << >> THEN << >>
  ELSE Insert(bs[Len(bs)], Sorted(SubSeq(bs, 1, Len(bs) - 1)))

\* line 174: list(map(lambda block: block['time'], sorted_blocks))
BlockTimes(bs) == [k \in 1 .. Len(bs) |-> bs[k].time]

\* TimeDiff with range(0, len): block_times[-1] is the last entry
TimeDiffFromZero(block_times) ==
  [k \in 1 .. Len(block_times) |->
     IF k = 1 THEN block_times[1] - block_times[Len(block_times)]
     ELSE block_times[k] - block_times[k - 1]]

\* line 177: [(block_times[i] - block_times[i-1])/60 for i in range(1, len(block_times))]
\* Python's i runs over 1 .. len-1 of a 0-based list; entry k here is its i = k.
TimeDiff(block_times) ==
  [k \in 1 .. Len(block_times) - 1 |->
     block_times[k + 1] - block_times[k]]

\* IsLong with > for >=
IsLongStrict(d) == d > LongGap * SecPerMin

\* time >= 120, for the float numerator / 60
IsLong(d) == d >= LongGap * SecPerMin

RECURSIVE Filter(_)
\* list(filter(lambda time: time >= 120, time_diff))
Filter(td) ==
  IF td = << >> THEN << >>
  ELSE IF IsLong(Head(td)) THEN <<Head(td)>> \o Filter(Tail(td))
       ELSE Filter(Tail(td))

RECURSIVE Sum(_)
Sum(td) == IF td = << >> THEN 0 ELSE Head(td) + Sum(Tail(td))

\* stdev(time_diff) is 0.0: every entry is the mean
StdevIsZero(td) == \A k \in DOMAIN td : Len(td) * td[k] = Sum(td)

\* lines 211-220 in order: mean() and stdev() raise StatisticsError on too few
\* points, line 212 divides by stdev, line 218 by actual, line 220 by prob
StatsError(td, prob_is_zero) ==
  IF Len(td) < 1 THEN "StatisticsError"
  ELSE IF Len(td) < 2 THEN "StatisticsError"
  ELSE IF StdevIsZero(td) THEN "ZeroDivisionError"
  ELSE IF Len(Filter(td)) = 0 THEN "ZeroDivisionError"
  ELSE IF prob_is_zero THEN "ZeroDivisionError"
  ELSE "none"

\* cell 5, lines 161-177
Cell5 ==
  /\ pc \in Rest
  /\ pc' = "c5_done"
  /\ err' = IF ~exists THEN "FileNotFoundError"
            ELSE IF "pickle" \notin names THEN "NameError"
            ELSE "none"
  /\ blocks' = IF err' = "none" THEN Flat(store) ELSE << >>
  /\ time_diff' = IF err' = "none" THEN TimeDiff(BlockTimes(Sorted(blocks')))
                  ELSE time_diff
  /\ names' = IF err' = "none" THEN names \cup {"time_diff"} ELSE names
  /\ pre' = IF exists THEN Flat(store) ELSE << >>
  /\ ClearCell1 /\ ClearCell3 /\ ClearStats /\ ClearTry
  /\ UNCHANGED <<exists, store, upstream, runs, steady>>

\* cell 7, lines 207-222; whether the float prob comes out 0.0 is not modelled
\* from the data: both outcomes are taken
Cell7 ==
  /\ pc \in Rest
  /\ pc' = "c7_done"
  /\ \E prob_is_zero \in BOOLEAN :
       err' = IF "time_diff" \notin names THEN "NameError"
              ELSE StatsError(time_diff, prob_is_zero)
  /\ actual' = IF "time_diff" \in names /\ Len(time_diff) >= 2
                  /\ ~StdevIsZero(time_diff)
                 THEN <<Len(Filter(time_diff)), Len(time_diff)>>
                 ELSE <<0, 0>>
  /\ long_block_deltas' = -1
  /\ blocks' = << >>
  /\ pre' = IF exists THEN Flat(store) ELSE << >>
  /\ ClearCell1 /\ ClearCell3 /\ ClearTry
  /\ UNCHANGED <<exists, store, names, time_diff, upstream, runs, steady>>

\* cell 9, lines 248-251
Cell9 ==
  /\ pc \in Rest
  /\ pc' = "c9_done"
  /\ err' = IF "time_diff" \notin names THEN "NameError" ELSE "none"
  /\ long_block_deltas' = IF err' = "none" THEN Len(Filter(time_diff)) ELSE -1
  /\ actual' = <<0, 0>>
  /\ blocks' = << >>
  /\ pre' = IF exists THEN Flat(store) ELSE << >>
  /\ ClearCell1 /\ ClearCell3 /\ ClearTry
  /\ UNCHANGED <<exists, store, names, time_diff, upstream, runs, steady>>

(***************************************************************************)
(* The environment: what the upstream sends and what the file may hold.    *)
(***************************************************************************)
SeqsUpTo(S, n) == UNION {[1 .. k -> S] : k \in 0 .. n}

\* the blocks /block-height/g may send: their height is g, their index need not be
HeightBlocks(g) == {Full(Block(i, "h1", g, 7200)) : i \in Indexes}

\* the block of an alternate chain at the same index and height
Alt(b) == [b EXCEPT !.hash = "h2"]

\* result['blocks'] of a 200 answer: no block, one, or one and its alternate
Answers(g) ==
  {<< >>} \cup {<<b>> : b \in HeightBlocks(g)} \cup
  {<<b, Alt(b)>> : b \in {x \in HeightBlocks(g) : x.block_index = g}}

\* the blocks /blocks/{timestamp} may send: the chain as it was when cell 1 ran,
\* one block short of what /block-height knows later
DayBlocks == {Full(Block(i, "h1", i, 0)) : i \in 0 .. MaxIndex - 1}

\* request.json() of a 200 answer of cell 1: no block, or one
DayPages == {<< >>} \cup {<<b>> : b \in DayBlocks}

\* a kernel at rest in which `bound` is bound, beside a file holding `pages`
AtRest(pages, bound, deltas) ==
  /\ exists = TRUE
  /\ store = pages
  /\ names = bound
  /\ pc = "c1_done"
  /\ err = "none"
  /\ timestamp = -1
  /\ tries = 0
  /\ blocks = << >>
  /\ missing_blocks = {}
  /\ pending = {}
  /\ block = -1
  /\ blocks_to_add = << >>
  /\ time_diff = deltas
  /\ actual = <<0, 0>>
  /\ long_block_deltas = -1
  /\ upstream = [i \in Indexes |-> Unasked]
  /\ runs = 0
  /\ steady = 0
  /\ unit = NoUnit
  /\ requested = << >>
  /\ pre = << >>

\* what cell 1 may have left in the file when cell 3 starts: a page for each day
\* that answered
ReconStores == SeqsUpTo(DayPages, NumDays)

\* timestamps of the blocks the Aggregator is tried on, in seconds: two hours
\* apart, and a second less
AggTimes == {0, 1, 7200}

AggBlocks == {Block(i, "h1", i, t) : i \in Indexes, t \in AggTimes}

\* five blocks 60, 60, 180 and 60 minutes apart
ExampleBlocks ==
  <<Block(0, "h1", 0, 0), Block(1, "h1", 1, 3600), Block(2, "h1", 2, 7200),
    Block(3, "h1", 3, 18000), Block(3, "h2", 3, 21600)>>

\* what cell 3 may have left in the file when cell 5 starts: one page
AggStores == {<<bs>> : bs \in SeqsUpTo(AggBlocks, MaxRecs) \cup {ExampleBlocks}}

(***************************************************************************)
(* Specifications.                                                         *)
(***************************************************************************)
\* The notebook: any cell may be run whenever the kernel is at rest.
Next ==
  \/ FetchStart
  \/ FetchNextDay
  \/ \E page \in DayPages : FetchOk(page)
  \/ FetchFail
  \/ ReconStart
  \/ ReconNextBlock
  \/ ReconNameError
  \/ \E bs \in Answers(block) : ReconOk(bs)
  \/ ReconFail
  \/ ReconWrite
  \/ Cell5
  \/ Cell7
  \/ Cell9
  \/ NewData
  \/ Interrupt
  \/ Restart

Spec == Init /\ [][Next]_vars

\* Cell 1 alone, from a new kernel and no file.
NextFetch ==
  \/ FetchStart
  \/ FetchNextDay
  \/ \E page \in DayPages : FetchOk(page)
  \/ FetchFail
  \/ Interrupt

SpecFetch == Init /\ [][NextFetch]_vars

\* Cell 1 left to run: the operator may start it, nothing interrupts it, every
\* request returns with some status and the loops go on.
NextFetchAlone ==
  \/ FetchStart
  \/ FetchNextDay
  \/ \E page \in DayPages : FetchOk(page)
  \/ FetchFail

FairFetch ==
  /\ Init
  /\ [][NextFetchAlone]_vars
  /\ WF_vars(FetchNextDay)
  /\ WF_vars(FetchFail \/ \E page \in DayPages : FetchOk(page))

\* Cell 3 alone, in a kernel that ran the imports of cell 1, on any file.
InitRecon ==
  \E pages \in ReconStores, bound \in {{"requests", "pickle"}, {"pickle"}} :
    AtRest(pages, bound, << >>)

NextRecon ==
  \/ ReconStart
  \/ ReconNextBlock
  \/ ReconNameError
  \/ \E bs \in Answers(block) : ReconOk(bs)
  \/ ReconFail
  \/ ReconWrite
  \/ Interrupt

SpecRecon == InitRecon /\ [][NextRecon]_vars

\* Cells 5, 7 and 9 alone, in any order, on any file.
InitAgg == \E pages \in AggStores : AtRest(pages, {"requests", "pickle"}, << >>)

NextAgg == Cell5 \/ Cell7 \/ Cell9

SpecAgg == InitAgg /\ [][NextAgg]_vars

\* The notebook run from the top in a new kernel: cell 1 once, then cell 3 or
\* cell 5 on the file cell 1 made, then cell 5 on the file cell 3 wrote.
NextPipeline ==
  \/ pc = "idle" /\ FetchStart
  \/ FetchNextDay
  \/ \E page \in DayPages : FetchOk(page)
  \/ FetchFail
  \/ pc = "c1_done" /\ ReconStart
  \/ ReconNextBlock
  \/ \E bs \in Answers(block) : ReconOk(bs)
  \/ ReconFail
  \/ ReconWrite
  \/ pc \in {"c1_done", "c3_done"} /\ Cell5

SpecPipeline == Init /\ [][NextPipeline]_vars

(***************************************************************************)
(* Properties.                                                             *)
(***************************************************************************)
InCell1 == pc \in {"c1_for_day", "c1_try"}

\* the day of the outer loop of cell 1 is over
DayOver == pc = "c1_for_day" /\ timestamp >= 0

\* C1: in cell 1 a day whose request fails 5 times in a row appends nothing to
\* the file and the cell goes on without an exception; a day that fails k < 5
\* times and then succeeds appends exactly one page, and no request follows
\* the success.
C1_FetchRetryBound ==
  InCell1 =>
    /\ err = "none"
    /\ unit.reqs = unit.fails + unit.oks
    /\ pc = "c1_try" => unit.oks = 0 /\ unit.adds = 0 /\ unit.fails < 5
    /\ DayOver =>
         \/ unit.fails = 5 /\ unit.oks = 0 /\ unit.adds = 0
         \/ unit.fails < 5 /\ unit.oks = 1 /\ unit.adds = 1

\* day 0 failed five times and left nothing, day 1 failed four times and then
\* succeeded
C1_Witness ==
  /\ DayOver
  /\ timestamp = 1
  /\ Len(store) = 1
  /\ unit = [reqs |-> 5, fails |-> 4, oks |-> 1, adds |-> 1]

\* a stage has run to its end
StageDone == pc \in Rest /\ pc # "idle" /\ err = "none"

\* C2: whatever stage is run, and cell 1 run again included, every record the
\* file held before the run is in the file after the run.
C2_NeverDeleted == StageDone => Range(pre) \subseteq Range(Flat(store))

AllDays == [d \in 1 .. NumDays |-> d - 1]

\* C6: once cell 1 is started it comes to its end without an exception, having
\* sent a request for every day of the range, in ascending order, whatever
\* the statuses.
C6_FetchCompletes ==
  (pc = "c1_for_day" /\ timestamp = -1)
    ~> (pc = "c1_done" /\ err = "none" /\ requested = AllDays)

\* every day failed five times and the cell still ended normally
C6_Witness ==
  /\ pc = "c1_done"
  /\ err = "none"
  /\ store = << >>
  /\ requested = AllDays
  /\ unit.fails = 5

\* cell 3 has loaded the file and is in its loop or at its write
InCell3 == pc \in {"c3_for_block", "c3_try", "c3_write"}

\* blocks of indexes 0, 1, 3 and 5
ExampleObserved ==
  <<Block(0, "h1", 0, 0), Block(1, "h1", 1, 0), Block(3, "h1", 3, 0), Block(5, "h1", 5, 0)>>

Observed(i) == \E k \in DOMAIN pre : pre[k].block_index = i

\* C3: the missing set cell 3 computes is exactly the indexes from 0 up to the
\* highest one the file holds that no record of the file has; observed
\* {0,1,3,5} gives {2,4}.
C3_MissingExact ==
  /\ MissingBlocks(ExampleObserved) = {2, 4}
  /\ InCell3 =>
       /\ missing_blocks \subseteq Indexes
       /\ \A i \in Indexes :
            i \in missing_blocks <=>
              ~Observed(i) /\ \E j \in Indexes : j > i /\ Observed(j)

\* the file holds indexes 1 and 3 only: 0 and 2 are missing
C3_Witness ==
  /\ pc = "c3_for_block"
  /\ IndexSet(pre) = {1, 3}
  /\ missing_blocks = {0, 2}
  /\ pending = {0, 2}

\* a run of cell 3 has come to its end
ReconDone == pc = "c3_done" /\ err = "none"

\* C4: a second run of cell 3, the upstream answering every index as in the
\* first, leaves the set of indexes in the file as the first run left it.
C4_Idempotent == ReconDone /\ steady >= 2 => IndexSet(Flat(store)) = IndexSet(pre)

\* C5: a run of cell 3 that finds nothing missing sends no request and leaves
\* the flat list of the file as it was: same records, same order, same keys.
C5_NoOpPersist ==
  ReconDone /\ missing_blocks = {} =>
    /\ Flat(store) = pre
    /\ unit.reqs = 0
    /\ blocks_to_add = << >>

\* two pages of cell 1 with indexes 0 and 1 became one page of two records
C5_Witness ==
  /\ ReconDone
  /\ missing_blocks = {}
  /\ Len(pre) = 2
  /\ IndexSet(pre) = {0, 1}
  /\ Len(store) = 1
  /\ \E k \in DOMAIN pre : "main_chain" \in DOMAIN pre[k]

\* C7: for each missing index cell 3 sends at most 5 requests, none after the
\* first 200, and after 5 failures it gives the index up and goes on with the
\* loop without an exception.
C7_ReconRetryBound ==
  pc \in {"c3_for_block", "c3_try"} /\ block >= 0 =>
    /\ err = "none"
    /\ block \in missing_blocks \ pending
    /\ unit.reqs = unit.fails + unit.oks
    /\ unit.reqs <= 5
    /\ pc = "c3_try" => unit.oks = 0 /\ unit.fails < 5
    /\ pc = "c3_for_block" =>
         \/ unit.fails = 5 /\ unit.oks = 0 /\ unit.adds = 0
         \/ unit.fails < 5 /\ unit.oks = 1

\* an index was given up after five failures and the loop is at the fourth
\* failure of another
C7_Witness ==
  /\ pc = "c3_try"
  /\ runs = 0
  /\ unit.fails = 4
  /\ blocks_to_add = << >>
  /\ \E i \in missing_blocks \ (pending \cup {block}) : upstream[i] = Failing

\* an empty delta series, or one whose entries are all the same
Degenerate(td) == \A j, k \in DOMAIN td : td[j] = td[k]

\* C8: on an empty or zero-variance delta series cell 7 ends with the error
\* that says the data is insufficient, not with a number and not with a
\* division by zero.
C8_DegenerateError ==
  pc = "c7_done" /\ "time_diff" \in names /\ Degenerate(time_diff) =>
    err = "StatisticsError"

\* C9: the delta series of cell 5 has one entry less than the file has
\* records, duplicates counted, and none when the file has no record or one.
C9_DeltaLength ==
  pc = "c5_done" /\ err = "none" =>
    /\ Len(blocks) = Len(pre)
    /\ Len(time_diff) = IF Len(pre) >= 1 THEN Len(pre) - 1 ELSE 0

\* three records, the first two the same record: two deltas
C9_Witness ==
  /\ pc = "c5_done"
  /\ err = "none"
  /\ Len(pre) = 3
  /\ pre[1] = pre[2]
  /\ Len(time_diff) = 2

\* the entries that are 120 minutes or more: 7200 seconds or more
LongEntries == {k \in DOMAIN time_diff : time_diff[k] >= 7200}

RECURSIVE PagesLen(_, _)
\* the records on the first p pages
PagesLen(pages, p) == IF p = 0 THEN 0 ELSE PagesLen(pages, p - 1) + Len(pages[p])

\* bs is the records of the pages, page after page, and nothing else
IsConcat(bs, pages) ==
  /\ Len(bs) = PagesLen(pages, Len(pages))
  /\ \A p \in DOMAIN pages : \A j \in DOMAIN pages[p] :
       bs[PagesLen(pages, p - 1) + j] = pages[p][j]

\* a step of cell 1 that took a 200 answer
AppendStep == pc = "c1_try" /\ pc' = "c1_for_day" /\ unit'.oks = 1

\* a step in which cell 3 or cell 5 read the whole file
LoadStep ==
  /\ pc \in Rest /\ exists
  /\ pc' \in {"c3_for_block", "c3_done", "c5_done"}
  /\ err' \in {"none", "ValueError"}

\* C12: every 200 answer of cell 1 puts one page at the end of the file and
\* leaves the pages before it; what cells 3 and 5 load is the records of the
\* pages of the file in file order and nothing else, the file being the pages
\* of cell 1 or the one page of cell 3.
C12_RoundTrip ==
  [][/\ AppendStep =>
          /\ Len(store') = Len(store) + 1
          /\ SubSeq(store', 1, Len(store)) = store
          /\ store'[Len(store')] \in DayPages
     /\ LoadStep => IsConcat(blocks', store)]_vars

\* cell 5 loaded two pages of one record each, different records, in file order
C12_Witness ==
  /\ pc = "c5_done"
  /\ err = "none"
  /\ Len(store) = 2
  /\ Len(store[1]) = 1 /\ Len(store[2]) = 1
  /\ store[1] # store[2]
  /\ blocks = <<store[1][1], store[2][1]>>

\* C13: in cell 1 a 200 answer with an empty page is a success: the day has
\* that one answer for its only success, one page was appended for it, every
\* other request of the day was a failure before it, no request follows it
\* and the cell goes on to the next day without an exception.
C13_EmptyDaySuccess ==
  InCell1 /\ unit.oks >= 1 /\ store # << >> /\ store[Len(store)] = << >> =>
    /\ pc = "c1_for_day"
    /\ err = "none"
    /\ unit.oks = 1
    /\ unit.adds = 1
    /\ unit.reqs = unit.fails + 1

\* day 0 answered 200 with no block at the first request
C13_Witness ==
  /\ DayOver
  /\ timestamp = 0
  /\ store = << << >> >>
  /\ unit = [reqs |-> 1, fails |-> 0, oks |-> 1, adds |-> 1]

\* the missing indexes of the run whose request was answered 200
Recovered == {i \in missing_blocks : upstream[i].status = 200}

\* dictionary d has the four keys and nothing else, with the values of record
IsProjectionOf(d, record) ==
  /\ DOMAIN d = CoreFields
  /\ \A f \in CoreFields : d[f] = record[f]

\* C14: after the write of cell 3 the file holds, after all the records it
\* held before the run and in their order, every record of every 200 answer
\* of the run, each with the four keys hash, height, time, block_index only.
C14_AllReturnedKept ==
  ReconDone =>
    LET after == Flat(store)
    IN  /\ Len(after) >= Len(pre)
        /\ SubSeq(after, 1, Len(pre)) = pre
        /\ \A i \in Recovered : \A k \in DOMAIN upstream[i].blocks :
             \E n \in Len(pre) + 1 .. Len(after) :
               IsProjectionOf(after[n], upstream[i].blocks[k])

\* a missing index was answered with a block and its alternate: the file has
\* two records more, both of that index
C14_Witness ==
  /\ ReconDone
  /\ \E i \in Recovered :
       /\ Len(upstream[i].blocks) = 2
       /\ upstream[i].blocks[1].hash # upstream[i].blocks[2].hash
  /\ Len(Flat(store)) = Len(pre) + 2
  /\ \E k \in DOMAIN pre : "main_chain" \in DOMAIN pre[k]

\* C15: an index that failed its five attempts in a run of cell 3 is in the
\* missing set the next run of cell 3 computes from the file.
C15_FailedStaysMissing ==
  pc = "c3_for_block" /\ block = -1 /\ runs >= 1 =>
    \A i \in Indexes : upstream[i] = Failing => i \in missing_blocks

\* the lists that hold the records of bs, each as often as bs does, in any order
Perms(bs) ==
  LET n == Len(bs)
      Bijections == {f \in [1 .. n -> 1 .. n] : \A j, k \in 1 .. n : f[j] = f[k] => j = k}
  IN  {[k \in 1 .. n |-> bs[f[k]]] : f \in Bijections}

\* C16: the delta series cell 5 computes from the file is the one it computes
\* from any file that holds the same records in another order.
C16_OrderIrrelevant ==
  pc = "c5_done" /\ err = "none" =>
    \A other \in Perms(pre) : TimeDiff(BlockTimes(Sorted(other))) = time_diff

\* every missing index of the run was answered 200 with at least one record,
\* and with records of that index only
AllAnsweredInKind ==
  \A i \in missing_blocks :
    /\ upstream[i].status = 200
    /\ upstream[i].blocks # << >>
    /\ \A k \in DOMAIN upstream[i].blocks : upstream[i].blocks[k].block_index = i

\* no index below one that the list holds is absent from it
NoGap(bs) == \A i \in Indexes : (\E j \in IndexSet(bs) : i <= j) => i \in IndexSet(bs)

\* C17: when every missing index of a run of cell 3 was answered 200 within
\* its five attempts with one record or more, all of that index, the file the
\* run writes has no missing index.
C17_GapFillComplete == ReconDone /\ AllAnsweredInKind => NoGap(Flat(store))

\* indexes 0 and 1 were missing and both were answered in kind
C17_Witness ==
  /\ ReconDone
  /\ AllAnsweredInKind
  /\ missing_blocks = {0, 1}
  /\ ~NoGap(pre)
  /\ NoGap(Flat(store))

\* a step that ends a run of cell 3 before line 142: an exception of the load
\* or of max(), or an interrupt or an exception inside the loop
StopsBeforeWrite ==
  /\ pc \in Rest \cup {"c3_for_block", "c3_try"}
  /\ pc' = "c3_done"

\* C18: a run of cell 3 that ends before its final write, by an interrupt in
\* the loop or by an exception, leaves the file as it was when the run began:
\* the same pages, and none of the records the run had fetched.
C18_WriteIsLast ==
  [][StopsBeforeWrite => store' = store /\ Flat(store') = pre']_vars

\* the run was interrupted in its loop with a fetched record in hand and an
\* index still to ask: the file is as it was
C18_Witness ==
  /\ pc = "c3_done"
  /\ err = "KeyboardInterrupt"
  /\ blocks_to_add # << >>
  /\ pending # {}
  /\ pre # << >>
  /\ Flat(store) = pre

RECURSIVE AnswerLen(_)
\* the records of the 200 answers of the indexes of S
AnswerLen(S) ==
  IF S = {} THEN 0
  ELSE LET i == CHOOSE x \in S : TRUE
       IN  Len(upstream[i].blocks) + AnswerLen(S \ {i})

\* how often the list has record r
Count(bs, r) == Cardinality({k \in DOMAIN bs : bs[k] = r})

RECURSIVE CountInPages(_, _)
\* how often the pages have record r
CountInPages(pages, r) ==
  IF pages = << >> THEN 0
  ELSE Count(Head(pages), r) + CountInPages(Tail(pages), r)

\* C19: the file cell 3 writes has as many records as the file had before
\* the run plus the records of the 200 answer of each missing index; and
\* cell 5 loads a record as often as the pages of the file hold it, a record
\* cell 1 got on two pages twice.
C19_NoDedup ==
  /\ ReconDone => Len(Flat(store)) = Len(pre) + AnswerLen(Recovered)
  /\ pc = "c5_done" /\ err = "none" =>
       \A p \in DOMAIN store : \A j \in DOMAIN store[p] :
         Count(blocks, store[p][j]) = CountInPages(store, store[p][j])

\* cell 1 got the same record on both days, cell 3 loaded it twice and added
\* the block and the alternate that one missing index was answered with
C19_Witness ==
  /\ ReconDone
  /\ Len(pre) = 2
  /\ pre[1] = pre[2]
  /\ \E i \in Recovered : Len(upstream[i].blocks) = 2
  /\ Len(Flat(store)) >= 4

====
